---- MODULE Spec2Model ----
(***************************************************************************)
(* Order assistant (src/assistant.py): endpoint dispatcher call_mcp, the   *)
(* session cache SESSION_MEMORY, the intent resolver detect_lookup_type    *)
(* and the turn loop interactive_loop, against the backend of src/app.py.  *)
(*                                                                         *)
(* Python strings that the code searches (the user's text, order numbers,  *)
(* e-mail addresses, keywords) are sequences of one-character strings, so  *)
(* that `k in text`, str.lower, str.upper and the two regular expressions  *)
(* are computed character by character.  Strings the code only compares    *)
(* for equality (tool names, error codes, field names) are TLA+ strings.   *)
(***************************************************************************)
EXTENDS Integers, Sequences, FiniteSets, TLC

VARIABLES
    MCP_ENDPOINTS,   \* the endpoint list (assistant.py:19-24), fixed at start
    down,            \* which endpoints fail, when that is fixed for a call
    SESSION_MEMORY,  \* order number -> cached record (assistant.py:30)
    pc,              \* position of interactive_loop / call_mcp
    health,          \* replies of the startup health probes, per endpoint
    healthy_mcps,    \* endpoints that passed the startup probe (line 405)
    u,               \* the text of the current turn (line 414)
    lookup,          \* (type, value, field) of detect_lookup_type (line 424)
    tool,            \* tool name of the call_mcp invocation in progress
    key,             \* order number / e-mail argument of that invocation
    tried,           \* call_mcp: set of endpoints already picked (line 80)
    errors,          \* call_mcp: per-attempt error strings (line 79)
    attempt,         \* call_mcp: iterations of the for loop done (line 81)
    posted,          \* call_mcp: endpoints posted to, in order (line 90)
    resp,            \* call_mcp: outcome of the last requests.post (line 90)
    result,          \* return value of the last call_mcp invocation
    calls,           \* call_mcp invocations issued in the current turn
    output           \* what the last turn printed

vars == <<MCP_ENDPOINTS, down, SESSION_MEMORY, pc, health, healthy_mcps, u, lookup,
          tool, key, tried, errors, attempt, posted, resp, result, calls, output>>

----------------------------------------------------------------------------
(* Bounds of the model *)

\* number of distinct base addresses the four endpoint settings range over
NumAddrs == 3
\* number of words in a generated text of the resolver specification
MaxWords == 3
\* number of records in a history reply
MaxOrders == 2

----------------------------------------------------------------------------
(* Character strings *)

W_total == <<"t","o","t","a","l">>
W_total_cost_of == <<"t","o","t","a","l"," ","c","o","s","t"," ","o","f">>
W_items == <<"i","t","e","m","s">>
W_status == <<"s","t","a","t","u","s">>
W_tracking == <<"t","r","a","c","k","i","n","g">>
W_shipping_to == <<"s","h","i","p","p","i","n","g"," ","t","o">>
W_when == <<"w","h","e","n">>
W_email == <<"e","m","a","i","l">>
W_hello == <<"h","e","l","l","o">>
ORD1 == <<"O","R","D","-","2","0","2","4","-","0","0","1">>
ORD2 == <<"O","R","D","-","2","0","2","4","-","0","0","2">>
ord2 == <<"o","r","d","-","2","0","2","4","-","0","0","2">>
EMAIL1 == <<"b","o","b","@","x",".","c","o">>
ORD_PREFIX == <<"O","R","D","-">>
LowerAlpha == <<"a","b","c","d","e","f","g","h","i","j","k","l","m","n","o","p","q","r","s","t","u","v","w","x","y","z">>
UpperAlpha == <<"A","B","C","D","E","F","G","H","I","J","K","L","M","N","O","P","Q","R","S","T","U","V","W","X","Y","Z">>
Digits == <<"0","1","2","3","4","5","6","7","8","9">>
T_TotalItems == <<"W","h","a","t","'","s"," ","t","h","e"," ","t","o","t","a","l"," ","c","o","s","t"," ","o","f"," ","O","R","D","-","2","0","2","4","-","0","0","1"," ","i","t","e","m","s">>
T_TrackShip == <<"t","r","a","c","k","i","n","g"," ","f","o","r"," ","O","R","D","-","2","0","2","4","-","0","0","2"," ","s","h","i","p","p","i","n","g"," ","t","o"," ","N","Y">>
T_Order1 == <<"O","R","D","-","2","0","2","4","-","0","0","1">>
T_StatusOrder2 == <<"s","t","a","t","u","s"," ","o","f"," ","o","r","d","-","2","0","2","4","-","0","0","2">>
T_History == <<"o","r","d","e","r","s"," ","f","o","r"," ","b","o","b","@","x",".","c","o">>
T_HistoryStatus == <<"s","t","a","t","u","s"," ","f","o","r"," ","b","o","b","@","x",".","c","o">>
T_Hello == <<"h","e","l","l","o">>
T_Exit == <<"E","x","i","t">>
T_WhenOrder1 == <<"w","h","e","n"," ","w","a","s"," ","O","R","D","-","2","0","2","4","-","0","0","1">>

UNKNOWN == <<"(","u","n","k","n","o","w","n",")">>

\* keyword literals of detect_lookup_type and of the turn loop
K_total_cost == <<"t","o","t","a","l"," ","c","o","s","t">>
K_total_of == <<"t","o","t","a","l"," ","o","f">>
K_total_for == <<"t","o","t","a","l"," ","f","o","r">>
K_total_cost_of == <<"t","o","t","a","l"," ","c","o","s","t"," ","o","f">>
K_total_colon == <<"t","o","t","a","l",":">>
K_total == <<"t","o","t","a","l">>
K_status == <<"s","t","a","t","u","s">>
K_order_status == <<"o","r","d","e","r"," ","s","t","a","t","u","s">>
K_shipping_address == <<"s","h","i","p","p","i","n","g"," ","a","d","d","r","e","s","s">>
K_shipping_to == <<"s","h","i","p","p","i","n","g"," ","t","o">>
K_ship_to == <<"s","h","i","p"," ","t","o">>
K_address == <<"a","d","d","r","e","s","s">>
K_tracking == <<"t","r","a","c","k","i","n","g">>
K_tracking_number == <<"t","r","a","c","k","i","n","g"," ","n","u","m","b","e","r">>
K_track == <<"t","r","a","c","k">>
K_items == <<"i","t","e","m","s">>
K_whats_in == <<"w","h","a","t","'","s"," ","i","n">>
K_what_are_the_items == <<"w","h","a","t"," ","a","r","e"," ","t","h","e"," ","i","t","e","m","s">>
K_line_items == <<"l","i","n","e"," ","i","t","e","m","s">>
K_email == <<"e","m","a","i","l">>
K_customer_email == <<"c","u","s","t","o","m","e","r"," ","e","m","a","i","l">>
K_date == <<"d","a","t","e">>
K_order_date == <<"o","r","d","e","r"," ","d","a","t","e">>
K_when == <<"w","h","e","n">>
K_exit == <<"e","x","i","t">>
K_quit == <<"q","u","i","t">>

----------------------------------------------------------------------------
(* Python values *)

\* None in a slot that otherwise holds a TLA+ string (type, field)
None == "None"
\* None in a slot that otherwise holds a character string (value, identifiers)
NoneStr == <<"None">>

\* truth value of a character string or None: None and "" are falsy
Truthy(s) == s # NoneStr /\ s # <<>>

IsDigit(c) == \E i \in 1..Len(Digits) : Digits[i] = c
IsLower(c) == \E i \in 1..Len(LowerAlpha) : LowerAlpha[i] = c
IsUpper(c) == \E i \in 1..Len(UpperAlpha) : UpperAlpha[i] = c
IsLetter(c) == IsLower(c) \/ IsUpper(c)

AlphaIndex(alpha, c) == CHOOSE i \in 1..Len(alpha) : alpha[i] = c

\* str.lower() and str.upper(), character by character
LowerChar(c) == IF IsUpper(c) THEN LowerAlpha[AlphaIndex(UpperAlpha, c)] ELSE c
UpperChar(c) == IF IsLower(c) THEN UpperAlpha[AlphaIndex(LowerAlpha, c)] ELSE c
lower(s) == [i \in 1..Len(s) |-> LowerChar(s[i])]
upper(s) == [i \in 1..Len(s) |-> UpperChar(s[i])]

\* Python's `k in text` for strings: k occurs as a substring of text
Contains(text, k) ==
    \E i \in 1..(Len(text) - Len(k) + 1) : SubSeq(text, i, i + Len(k) - 1) = k

\* any(k in text for k in ks)
AnyIn(text, ks) == \E k \in ks : Contains(text, k)

Min(S) == CHOOSE x \in S : \A y \in S : x <= y
Max(S) == CHOOSE x \in S : \A y \in S : x >= y

\* ORDER_NUMBER_PATTERN  (ORD-\d{4}-\d{3})  matched at position i of t
OrderNumberMatchAt(t, i) ==
    /\ i + 11 <= Len(t)
    /\ SubSeq(t, i, i + 3) = ORD_PREFIX
    /\ \A j \in 4..7 : IsDigit(t[i + j])
    /\ t[i + 8] = "-"
    /\ \A j \in 9..11 : IsDigit(t[i + j])

\* re.search(ORDER_NUMBER_PATTERN, t).group(1): the leftmost match, or None
OrderNumberSearch(t) ==
    LET starts == {i \in 1..Len(t) : OrderNumberMatchAt(t, i)}
    IN  IF starts = {} THEN NoneStr
        ELSE SubSeq(t, Min(starts), Min(starts) + 11)

\* character classes of EMAIL_PATTERN
LocalChar(c) == IsLetter(c) \/ IsDigit(c) \/ c \in {".", "_", "%", "+", "-"}
DomainChar(c) == IsLetter(c) \/ IsDigit(c) \/ c \in {".", "-"}

\* EMAIL_PATTERN matches t from s with the "@" at p and the last "\." at q
EmailMatch(t, s, p, q) ==
    /\ s < p /\ p + 1 < q /\ q + 2 <= Len(t)
    /\ \A j \in s..(p - 1) : LocalChar(t[j])
    /\ t[p] = "@"
    /\ \A j \in (p + 1)..(q - 1) : DomainChar(t[j])
    /\ t[q] = "."
    /\ IsLetter(t[q + 1]) /\ IsLetter(t[q + 2])

\* re.search(EMAIL_PATTERN, t).group(1): leftmost start, every quantifier
\* greedy (the longest domain part, then the longest run of letters)
EmailSearch(t) ==
    LET N == Len(t)
        ats == {p \in 1..N : t[p] = "@"}
        dots == {q \in 1..N : t[q] = "."}
        starts == {s \in 1..N : \E p \in ats, q \in dots : EmailMatch(t, s, p, q)}
    IN  IF starts = {} THEN NoneStr
        ELSE LET s == Min(starts)
                 p == CHOOSE p \in ats : \E q \in dots : EmailMatch(t, s, p, q)
                 q == Max({q \in dots : EmailMatch(t, s, p, q)})
                 e == Max({e \in (q + 2)..N : \A j \in (q + 1)..e : IsLetter(t[j])})
             IN  SubSeq(t, s, e)

----------------------------------------------------------------------------
(* Intent resolver *)

TotalKeywords == {K_total_cost, K_total_of, K_total_for, K_total_cost_of, K_total_colon, K_total}
StatusKeywords == {K_status, K_order_status}
ShippingKeywords == {K_shipping_address, K_shipping_to, K_ship_to, K_address}
TrackingKeywords == {K_tracking, K_tracking_number, K_track}
ItemsKeywords == {K_items, K_whats_in, K_what_are_the_items, K_line_items}
EmailKeywords == {K_email, K_customer_email}
DateKeywords == {K_date, K_order_date, K_when}

\* variant: the shipping rule without its `"tracking" not in text` condition
OrderFieldOf_ShippingUnguarded(t) ==
    IF AnyIn(t, TotalKeywords) /\ ~Contains(t, K_items) THEN "total"
    ELSE IF AnyIn(t, StatusKeywords) THEN "status"
    ELSE IF AnyIn(t, ShippingKeywords) THEN "shipping address"
    ELSE IF AnyIn(t, TrackingKeywords) THEN "tracking"
    ELSE IF AnyIn(t, ItemsKeywords) THEN "items"
    ELSE IF AnyIn(t, EmailKeywords) THEN "email"
    ELSE IF AnyIn(t, DateKeywords) THEN "date"
    ELSE None

\* variant: the total rule without its `"items" not in text` condition
OrderFieldOf_TotalFirst(t) ==
    IF AnyIn(t, TotalKeywords) THEN "total"
    ELSE IF AnyIn(t, StatusKeywords) THEN "status"
    ELSE IF AnyIn(t, ShippingKeywords) /\ ~Contains(t, K_tracking) THEN "shipping address"
    ELSE IF AnyIn(t, TrackingKeywords) THEN "tracking"
    ELSE IF AnyIn(t, ItemsKeywords) THEN "items"
    ELSE IF AnyIn(t, EmailKeywords) THEN "email"
    ELSE IF AnyIn(t, DateKeywords) THEN "date"
    ELSE None

\* the if/elif chain of the order branch of detect_lookup_type; t is lowercased
OrderFieldOf(t) ==
    IF AnyIn(t, TotalKeywords) /\ ~Contains(t, K_items) THEN "total"
    ELSE IF AnyIn(t, StatusKeywords) THEN "status"
    ELSE IF AnyIn(t, ShippingKeywords) /\ ~Contains(t, K_tracking) THEN "shipping address"
    ELSE IF AnyIn(t, TrackingKeywords) THEN "tracking"
    ELSE IF AnyIn(t, ItemsKeywords) THEN "items"
    ELSE IF AnyIn(t, EmailKeywords) THEN "email"
    ELSE IF AnyIn(t, DateKeywords) THEN "date"
    ELSE None

\* variant: the e-mail branch tests total before status, as the order branch
EmailFieldOf_TotalFirst(t) ==
    IF Contains(t, K_total) /\ ~Contains(t, K_items) THEN "total"
    ELSE IF Contains(t, K_status) THEN "status"
    ELSE IF Contains(t, K_items) THEN "items"
    ELSE IF Contains(t, K_date) \/ Contains(t, K_when) THEN "date"
    ELSE None

\* the if/elif chain of the e-mail branch of detect_lookup_type
EmailFieldOf(t) ==
    IF Contains(t, K_status) THEN "status"
    ELSE IF Contains(t, K_total) /\ ~Contains(t, K_items) THEN "total"
    ELSE IF Contains(t, K_items) THEN "items"
    ELSE IF Contains(t, K_date) \/ Contains(t, K_when) THEN "date"
    ELSE None

detect_lookup_type(text) ==
    LET order_number == OrderNumberSearch(upper(text))
        email == EmailSearch(lower(text))
    IN  IF order_number # NoneStr
        THEN [type |-> "order", value |-> order_number, field |-> OrderFieldOf(lower(text))]
        ELSE IF email # NoneStr
        THEN [type |-> "email", value |-> email, field |-> EmailFieldOf(lower(text))]
        ELSE [type |-> None, value |-> NoneStr, field |-> None]

\* the keyword chain of the order branch of the turn loop: the field that is
\* extracted and printed, "summary" standing for build_order_summary
TurnField(text, field) ==
    LET q == lower(text)
    IN  IF AnyIn(q, TotalKeywords) /\ ~Contains(q, K_items) THEN "total"
        ELSE IF AnyIn(q, StatusKeywords) THEN "status"
        ELSE IF AnyIn(q, ShippingKeywords) /\ ~Contains(q, K_tracking) THEN "shipping address"
        ELSE IF AnyIn(q, TrackingKeywords) THEN "tracking"
        ELSE IF AnyIn(q, ItemsKeywords) THEN "items"
        ELSE IF AnyIn(q, EmailKeywords) THEN "email"
        ELSE IF field # None THEN field
        ELSE "summary"

----------------------------------------------------------------------------
(* Configuration and the backend *)

RETRY_ATTEMPTS == 2
NumEndpoints == 4

\* base addresses; the four settings MCP_URL1..4 may name the same address
Addrs == 1..NumAddrs

\* the endpoint lists: every list of NumEndpoints addresses, the addresses
\* numbered in order of first occurrence
EndpointLists ==
    {l \in [1..NumEndpoints -> Addrs] :
        \A i \in 1..NumEndpoints :
            l[i] = 1 \/ \E j \in 1..(i - 1) : l[j] = l[i] - 1}

OrderNumbers == {ORD1, ORD2}
Statuses == {"processing", "shipped"}

\* a document of db.orders as get_order_status returns it (app.py:121-129)
OrderDoc(order_number, status) ==
    [order_number |-> order_number, status |-> status, customer_email |-> EMAIL1]

\* a row of the history reply (app.py:107-112); order_number is None when the
\* document has no such key
HistoryRow(order_number, status) ==
    [order_number |-> order_number, status |-> status,
     total_amount |-> 25, order_date |-> "2024-01-05"]

HistoryRows == {HistoryRow(n, s) : n \in OrderNumbers \cup {NoneStr}, s \in Statuses}

SeqsUpTo(S, n) == UNION {[1..k -> S] : k \in 0..n}

\* a JSON body that is not an object
JsonList == [nondict |-> "list"]
\* isinstance(result, dict)
IsDict(v) == "nondict" \notin DOMAIN v

\* HTTPException(status_code=503, detail="database unavailable"), app.py:91-92
DbUnavailable == [status |-> 503, json |-> [detail |-> "database unavailable"]]
\* HTTPException(status_code=404, ...), app.py:131
ToolNotFound == [status |-> 404, json |-> [detail |-> "tool not found"]]
\* HTTPException(status_code=400, ...), app.py:101-102 and 118-119
ArgRequired == [status |-> 400, json |-> [detail |-> "argument required"]]

Ok(body) == [status |-> 200, json |-> body]

\* a reply whose body is not JSON (an unhandled server error, a proxy page)
BadBody(status) == [status |-> status, text |-> "not json"]

\* requests.post raised instead of returning a reply
Raised(kind) == [raised |-> kind]

\* the replies of POST /mcp/invoke whose body parses as JSON; not_found for
\* an e-mail is the reply lines 500-501 of assistant.py handle (app.py itself
\* answers an e-mail without orders with an empty list)
invoke(t, k) ==
    {DbUnavailable, Ok(JsonList)} \cup
    IF t = "get_order_history_by_email"
    THEN IF k = NoneStr THEN {ArgRequired}
         ELSE {Ok([email |-> k, orders |-> os]) : os \in SeqsUpTo(HistoryRows, MaxOrders)}
              \cup {Ok([error |-> "not_found", email |-> k])}
    ELSE IF t = "get_order_status"
    THEN IF k = NoneStr THEN {ArgRequired}
         ELSE {Ok(OrderDoc(k, s)) : s \in Statuses}
              \cup {Ok([error |-> "not_found", order_number |-> k])}
    ELSE {ToolNotFound}

\* what requests.post can do in one attempt: raise Timeout, ConnectionError
\* or another exception, or return a reply whose body parses or does not
PostOutcomes(t, k) ==
    {Raised(e) : e \in {"Timeout", "ConnectionError", "Exception"}}
    \cup {BadBody(500)} \cup invoke(t, k)

\* variant: a body with an "error" key counts as a failed attempt
Parses_ErrorIsFailure(r) == "json" \in DOMAIN r /\ "error" \notin DOMAIN r.json

\* resp.json() returns (does not raise)
Parses(r) == "json" \in DOMAIN r

\* the except clause that handles a failed attempt (lines 96-104)
FailureKind(r) ==
    IF "raised" \in DOMAIN r THEN r.raised ELSE "InvalidJSON"

\* the error string call_mcp records for a failed attempt (lines 97-104)
ErrorString(kind, mcp_base) ==
    [text |-> CASE kind = "InvalidJSON" -> "Invalid JSON from"
                [] kind = "Timeout" -> "Timeout from"
                [] kind = "ConnectionError" -> "Cannot connect to"
                [] OTHER -> "Error from",
     mcp_base |-> mcp_base]

\* variant: only the last error string is reported
Unavailable_LastErrorOnly(errs) ==
    [error |-> "mcp_unavailable",
     details |-> "Could not reach order service. Please try again in a few minutes.",
     debug_info |-> IF errs = <<>> THEN errs ELSE <<errs[Len(errs)]>>]

\* the synthetic result of lines 107-111; debug_info joins the error strings
Unavailable(errs) ==
    [error |-> "mcp_unavailable",
     details |-> "Could not reach order service. Please try again in a few minutes.",
     debug_info |-> errs]

\* _get(order, *keys) for keys without dots: the first key present wins,
\* whatever its value
RECURSIVE _get(_, _)
_get(order, keys) ==
    IF keys = <<>> THEN NoneStr
    ELSE IF Head(keys) \in DOMAIN order THEN order[Head(keys)]
    ELSE _get(order, Tail(keys))

----------------------------------------------------------------------------
(* Session cache *)

\* variant: an existing entry is kept (setdefault instead of assignment)
Put_KeepExisting(m, k, v) ==
    IF k \in DOMAIN m THEN m ELSE [x \in DOMAIN m \cup {k} |-> IF x = k THEN v ELSE m[x]]

\* SESSION_MEMORY[k] = v
Put(m, k, v) == [x \in DOMAIN m \cup {k} |-> IF x = k THEN v ELSE m[x]]

\* variant: only the first row of the reply is stored
CacheOrders_FirstOnly(m, orders) ==
    IF orders = <<>> THEN m
    ELSE LET o == Head(orders)
             order_num == IF "order_number" \in DOMAIN o THEN o.order_number ELSE NoneStr
         IN  IF Truthy(order_num)
             THEN [x \in DOMAIN m \cup {order_num} |-> IF x = order_num THEN o ELSE m[x]]
             ELSE m

\* lines 510-514: every row with a truthy identifier is stored, in list order
RECURSIVE CacheOrders(_, _)
CacheOrders(m, orders) ==
    IF orders = <<>> THEN m
    ELSE LET o == Head(orders)
             order_num == _get(o, <<"order_number", "order_id", "id">>)
         IN  CacheOrders(IF Truthy(order_num) THEN Put(m, order_num, o) ELSE m,
                         Tail(orders))

----------------------------------------------------------------------------
(* Startup *)

\* what GET /mcp/health can do: raise (timeout, refused, body not JSON) or
\* reply with a status code and a status field
HealthOutcomes ==
    {Raised("Exception"),
     [status_code |-> 200, status |-> "ok"],
     [status_code |-> 200, status |-> "degraded"],
     [status_code |-> 200, status |-> "error"],
     [status_code |-> 503, status |-> "ok"]}

\* variant: the status field of the health reply is not looked at
check_mcp_health_AnyStatus(r) ==
    IF "raised" \in DOMAIN r THEN FALSE ELSE r.status_code = 200

check_mcp_health(r) ==
    IF "raised" \in DOMAIN r THEN FALSE
    ELSE r.status_code = 200 /\ r.status \in {"ok", "degraded"}

\* [ep for ep in MCP_ENDPOINTS if check_mcp_health(ep)], h[i] being the
\* outcome of the probe of the i-th endpoint
RECURSIVE HealthyFrom(_, _, _)
HealthyFrom(eps, h, i) ==
    IF i > Len(eps) THEN <<>>
    ELSE (IF check_mcp_health(h[i]) THEN <<eps[i]>> ELSE <<>>)
         \o HealthyFrom(eps, h, i + 1)

NoLookup == [type |-> None, value |-> NoneStr, field |-> None]
NoResult == [none |-> TRUE]
NoOutput == [msg |-> "none"]

\* the endpoints answer each post as they please
Free == [fixed |-> FALSE]
\* the endpoints of the set failing fail every post of the call (timeout,
\* connection error, body that does not parse), all others return a body
\* that parses
Fixed(failing) == [fixed |-> TRUE, failing |-> failing]

Init ==
    /\ MCP_ENDPOINTS \in EndpointLists
    /\ down = Free
    /\ SESSION_MEMORY = [x \in {} |-> NoResult]
    /\ pc = "start"
    /\ health = <<>>
    /\ healthy_mcps = <<>>
    /\ u = <<>>
    /\ lookup = NoLookup
    /\ tool = None
    /\ key = NoneStr
    /\ tried = {}
    /\ errors = <<>>
    /\ attempt = 0
    /\ posted = <<>>
    /\ resp = NoResult
    /\ result = NoResult
    /\ calls = 0
    /\ output = NoOutput

callVars == <<tool, key, tried, errors, attempt, posted, resp, result>>
turnVars == <<u, lookup, calls>>

\* line 405: every endpoint of the list is probed
Probe ==
    /\ pc = "start"
    /\ \E h \in [1..NumEndpoints -> HealthOutcomes] :
          /\ health' = h
          /\ healthy_mcps' = HealthyFrom(MCP_ENDPOINTS, h, 1)
    /\ pc' = "probed"
    /\ UNCHANGED <<MCP_ENDPOINTS, down, SESSION_MEMORY, output>>
    /\ UNCHANGED <<callVars, turnVars>>

\* lines 406-409: no endpoint is usable, interactive_loop returns
Refuse ==
    /\ pc = "probed"
    /\ healthy_mcps = <<>>
    /\ output' = [msg |-> "no_mcp", endpoints |-> MCP_ENDPOINTS]
    /\ pc' = "refused"
    /\ UNCHANGED <<MCP_ENDPOINTS, down, SESSION_MEMORY, health, healthy_mcps>>
    /\ UNCHANGED <<callVars, turnVars>>

\* line 411: the session starts; healthy_mcps is not read after this line
Ready ==
    /\ pc = "probed"
    /\ healthy_mcps # <<>>
    /\ output' = [msg |-> "ready", healthy |-> Len(healthy_mcps)]
    /\ pc' = "input"
    /\ health' = <<>>
    /\ healthy_mcps' = <<>>
    /\ UNCHANGED <<MCP_ENDPOINTS, down, SESSION_MEMORY>>
    /\ UNCHANGED <<callVars, turnVars>>

----------------------------------------------------------------------------
(* call_mcp *)

\* the locals of call_mcp on entry (lines 79-80)
EnterCall(t, k) ==
    /\ tool' = t
    /\ key' = k
    /\ tried' = {}
    /\ errors' = <<>>
    /\ attempt' = 0
    /\ posted' = <<>>
    /\ resp' = NoResult
    /\ result' = NoResult
    /\ pc' = "call"

\* the caller has consumed the result: nothing of the call is left
LeaveCall ==
    /\ tool' = None
    /\ key' = NoneStr
    /\ posted' = <<>>
    /\ resp' = NoResult
    /\ result' = NoResult

\* call_mcp returns: its locals tried, errors and the loop counter are gone
Return ==
    /\ tried' = {}
    /\ errors' = <<>>
    /\ attempt' = 0

\* variant: no random choice, only the first endpoint of the list is offered
Available_FirstOnly(eps, tr) == {eps[1]} \ tr

\* variant: the filter `if ep not in tried` is missing
Available_NoFilter(eps, tr) == {eps[i] : i \in 1..Len(eps)}

\* line 83: [ep for ep in MCP_ENDPOINTS if ep not in tried]
Available(eps, tr) == {eps[i] : i \in 1..Len(eps)} \ tr

\* one iteration of the for loop (lines 81-104): pick an untried endpoint,
\* post to it, and either return the parsed body or record an error
Attempt ==
    /\ pc = "call"
    /\ attempt < RETRY_ATTEMPTS
    /\ \E mcp_base \in Available(MCP_ENDPOINTS, tried) :
       \E r \in PostOutcomes(tool, key) :
          /\ down.fixed => (mcp_base \in down.failing <=> ~Parses(r))
          /\ posted' = Append(posted, mcp_base)
          /\ resp' = r
          /\ IF Parses(r)
             THEN /\ result' = r.json
                  /\ pc' = "returned"
                  /\ Return
             ELSE /\ tried' = tried \cup {mcp_base}
                  /\ errors' = Append(errors, ErrorString(FailureKind(r), mcp_base))
                  /\ attempt' = attempt + 1
                  /\ UNCHANGED <<result, pc>>
    /\ UNCHANGED <<MCP_ENDPOINTS, down, SESSION_MEMORY, health, healthy_mcps,
                   u, lookup, tool, key, calls, output>>

\* the loop ends without a return (budget used up, or line 84-85: nothing
\* left to try): lines 107-111
GiveUp ==
    /\ pc = "call"
    /\ attempt = RETRY_ATTEMPTS \/ Available(MCP_ENDPOINTS, tried) = {}
    /\ result' = Unavailable(errors)
    /\ pc' = "returned"
    /\ Return
    /\ UNCHANGED <<MCP_ENDPOINTS, down, SESSION_MEMORY, health, healthy_mcps,
                   u, lookup, tool, key, posted, resp, calls, output>>

----------------------------------------------------------------------------
(* The turn loop *)

\* texts typed in a session
SessionTexts == {T_TotalItems, T_StatusOrder2, T_History, T_HistoryStatus, T_Hello, T_Exit}

\* detect_lookup_type(u) of every text of the session (line 424)
Detected == [text \in SessionTexts |-> detect_lookup_type(text)]

\* lines 454-488: the answer of an order turn for the record in hand
OrderAnswer(text, field, order_number) ==
    LET f == TurnField(text, field)
    IN  IF f = "summary"
        THEN [msg |-> "summary", order_number |-> order_number]
        ELSE [msg |-> "field", field |-> f, order_number |-> order_number]

\* line 420: u.lower() in ("exit", "quit")
ExitTexts == {text \in SessionTexts : lower(text) \in {K_exit, K_quit}}

\* lines 415-421: end of input, or the text is exit / quit
Exit ==
    /\ pc = "input"
    /\ \E text \in SessionTexts \cup {NoneStr} :
          /\ text = NoneStr \/ text \in ExitTexts
          /\ output' = [msg |-> IF text = NoneStr THEN "exiting" ELSE "none"]
    /\ pc' = "exited"
    /\ UNCHANGED <<MCP_ENDPOINTS, down, SESSION_MEMORY, health, healthy_mcps>>
    /\ UNCHANGED <<callVars, turnVars>>

\* a text that starts a turn (lines 418-421 did not end the iteration)
TurnTexts == {text \in SessionTexts : text # <<>>} \ ExitTexts

\* lines 427-433 and 453-488: an order turn
OrderTurn ==
    /\ pc = "input"
    /\ \E text \in TurnTexts :
       LET l == Detected[text]
           order_number == l.value
       IN  /\ l.type = "order"
           /\ u' = text
           /\ lookup' = l
           /\ IF order_number \in DOMAIN SESSION_MEMORY
              THEN /\ output' = OrderAnswer(text, l.field, order_number)
                   /\ calls' = 0
                   /\ UNCHANGED <<pc, callVars>>
              ELSE /\ EnterCall("get_order_status", order_number)
                   /\ calls' = 1
                   /\ output' = NoOutput
    /\ UNCHANGED <<MCP_ENDPOINTS, down, SESSION_MEMORY, health, healthy_mcps>>

\* lines 436-451 and 453-488: the order turn after call_mcp returned
OrderResult ==
    /\ pc = "returned"
    /\ lookup.type = "order"
    /\ IF ~IsDict(result)
       THEN /\ output' = [msg |-> "unreachable"]
            /\ UNCHANGED SESSION_MEMORY
       ELSE IF "error" \in DOMAIN result
       THEN /\ output' =
                  IF result.error = "not_found"
                  THEN [msg |-> "not_found", order_number |-> lookup.value]
                  ELSE IF result.error = "mcp_unavailable"
                  THEN [msg |-> "unavailable", details |-> result.details]
                  ELSE [msg |-> "lookup_error"]
            /\ UNCHANGED SESSION_MEMORY
       ELSE /\ SESSION_MEMORY' = Put(SESSION_MEMORY, lookup.value, result)
            /\ output' = OrderAnswer(u, lookup.field, lookup.value)
    /\ pc' = "input"
    /\ LeaveCall
    /\ UNCHANGED <<MCP_ENDPOINTS, down, health, healthy_mcps, tried, errors, attempt, turnVars>>

\* the line printed for each order of a history (lines 325-332, 340-343):
\* its identifier, or "(unknown)", and its status
HistoryLines(orders) ==
    [i \in 1..Len(orders) |->
        LET order_num == _get(orders[i], <<"order_number", "order_id", "id">>)
        IN  [order_num |-> IF Truthy(order_num) THEN order_num ELSE UNKNOWN,
             status |-> _get(orders[i], <<"status">>)]]

\* lines 491-494: an e-mail turn always fetches the history
EmailTurn ==
    /\ pc = "input"
    /\ \E text \in TurnTexts :
       LET l == Detected[text]
       IN  /\ l.type = "email"
           /\ u' = text
           /\ lookup' = l
           /\ EnterCall("get_order_history_by_email", l.value)
    /\ calls' = 1
    /\ output' = NoOutput
    /\ UNCHANGED <<MCP_ENDPOINTS, down, SESSION_MEMORY, health, healthy_mcps>>

\* lines 495-524: the e-mail turn after call_mcp returned
EmailResult ==
    /\ pc = "returned"
    /\ lookup.type = "email"
    /\ IF ~IsDict(result)
       THEN /\ output' = [msg |-> "unreachable"]
            /\ UNCHANGED SESSION_MEMORY
       ELSE IF "error" \in DOMAIN result
       THEN /\ output' =
                  IF result.error = "not_found"
                  THEN [msg |-> "not_found", email |-> lookup.value]
                  ELSE IF result.error = "mcp_unavailable"
                  THEN [msg |-> "unavailable", details |-> result.details]
                  ELSE [msg |-> "lookup_error"]
            /\ UNCHANGED SESSION_MEMORY
       ELSE LET orders == IF "orders" \in DOMAIN result THEN result.orders ELSE <<>>
            IN  /\ SESSION_MEMORY' = CacheOrders(SESSION_MEMORY, orders)
                /\ output' =
                      IF lookup.field # None
                      THEN [msg |-> "history_field", field |-> lookup.field,
                            email |-> lookup.value,
                            lines |-> HistoryLines(orders)]
                      ELSE [msg |-> "history", email |-> lookup.value,
                            lines |-> HistoryLines(orders)]
    /\ pc' = "input"
    /\ LeaveCall
    /\ UNCHANGED <<MCP_ENDPOINTS, down, health, healthy_mcps, tried, errors, attempt, turnVars>>

\* what model_generate followed by safe_json_parse can give (lines 527-537):
\* an exception, text that is no tool call, or a tool call with its argument
LlmOutcomes ==
    {[kind |-> "raise"], [kind |-> "text"]}
    \cup {[kind |-> "tool", tool |-> "get_order_status", arg |-> k] :
             k \in OrderNumbers \cup {NoneStr}}
    \cup {[kind |-> "tool", tool |-> "get_weather", arg |-> NoneStr]}

\* lines 526-565: a turn that is neither an order nor an e-mail lookup
LlmTurn ==
    /\ pc = "input"
    /\ \E text \in TurnTexts :
       LET l == Detected[text]
       IN  /\ l.type = None
           /\ u' = text
           /\ lookup' = l
    /\ \E j \in LlmOutcomes :
          IF j.kind = "raise"
          THEN /\ output' = [msg |-> "llm_error"]
               /\ calls' = 0
               /\ UNCHANGED <<pc, callVars>>
          ELSE IF j.kind = "text"
          THEN /\ output' = [msg |-> "llm_text"]
               /\ calls' = 0
               /\ UNCHANGED <<pc, callVars>>
          ELSE IF j.tool = "get_order_status" /\ ~Truthy(j.arg)
          THEN /\ output' = [msg |-> "order_number_required"]
               /\ calls' = 0
               /\ UNCHANGED <<pc, callVars>>
          ELSE IF j.tool = "get_order_status" /\ j.arg \in DOMAIN SESSION_MEMORY
          THEN /\ output' = [msg |-> "summary", order_number |-> j.arg]
               /\ calls' = 0
               /\ UNCHANGED <<pc, callVars>>
          ELSE /\ EnterCall(j.tool, j.arg)
               /\ calls' = 1
               /\ output' = NoOutput
    /\ UNCHANGED <<MCP_ENDPOINTS, down, SESSION_MEMORY, health, healthy_mcps>>

\* lines 549-559: the get_order_status tool call after call_mcp returned
LlmOrderResult ==
    /\ pc = "returned"
    /\ lookup.type = None
    /\ tool = "get_order_status"
    /\ IF ~IsDict(result) \/ "error" \in DOMAIN result
       THEN /\ output' =
                  IF IsDict(result) /\ result.error = "not_found"
                  THEN [msg |-> "not_found", order_number |-> key]
                  ELSE [msg |-> "lookup_failed"]
            /\ UNCHANGED SESSION_MEMORY
       ELSE /\ SESSION_MEMORY' = Put(SESSION_MEMORY, key, result)
            /\ output' = [msg |-> "summary", order_number |-> key]
    /\ pc' = "input"
    /\ LeaveCall
    /\ UNCHANGED <<MCP_ENDPOINTS, down, health, healthy_mcps, tried, errors, attempt, turnVars>>

\* lines 561-563: any other tool call, the result is printed as it came
LlmToolResult ==
    /\ pc = "returned"
    /\ lookup.type = None
    /\ tool # "get_order_status"
    /\ output' = [msg |-> "raw"]
    /\ pc' = "input"
    /\ LeaveCall
    /\ UNCHANGED <<MCP_ENDPOINTS, down, SESSION_MEMORY, health, healthy_mcps, tried, errors,
                   attempt, turnVars>>

Next ==
    \/ Probe \/ Refuse \/ Ready
    \/ Exit \/ OrderTurn \/ EmailTurn \/ LlmTurn
    \/ Attempt \/ GiveUp
    \/ OrderResult \/ EmailResult \/ LlmOrderResult \/ LlmToolResult

Spec == Init /\ [][Next]_vars

----------------------------------------------------------------------------
(* The intent resolver on its own: detect_lookup_type and the keyword chain *)
(* of the turn loop applied to generated texts                              *)

Vocabulary ==
    {W_total, W_total_cost_of, W_items, W_status, W_tracking, W_shipping_to,
     W_when, W_email, W_hello, ORD1, ord2, EMAIL1}

\* " ".join(ws)
RECURSIVE JoinWords(_)
JoinWords(ws) ==
    IF Len(ws) = 1 THEN ws[1]
    ELSE ws[1] \o <<" ">> \o JoinWords(Tail(ws))

ResolveTexts ==
    {JoinWords(ws) : ws \in SeqsUpTo(Vocabulary, MaxWords) \ {<<>>}}
    \cup {T_TotalItems, T_TrackShip, T_WhenOrder1, T_StatusOrder2, T_History,
          T_HistoryStatus, T_Hello}

InitResolve ==
    /\ MCP_ENDPOINTS = [i \in 1..NumEndpoints |-> 1]
    /\ down = Free
    /\ SESSION_MEMORY = [x \in {} |-> NoResult]
    /\ pc = "resolve"
    /\ health = <<>>
    /\ healthy_mcps = <<>>
    /\ u \in ResolveTexts
    /\ lookup = NoLookup
    /\ tool = None
    /\ key = NoneStr
    /\ tried = {}
    /\ errors = <<>>
    /\ attempt = 0
    /\ posted = <<>>
    /\ resp = NoResult
    /\ result = NoResult
    /\ calls = 0
    /\ output = NoOutput

\* line 424, and for an order text the chain of lines 454-488
Resolve ==
    /\ pc = "resolve"
    /\ lookup' = detect_lookup_type(u)
    /\ output' = IF lookup'.type = "order"
                 THEN OrderAnswer(u, lookup'.field, lookup'.value)
                 ELSE NoOutput
    /\ pc' = "resolved"
    /\ UNCHANGED <<MCP_ENDPOINTS, down, SESSION_MEMORY, health, healthy_mcps, u, calls>>
    /\ UNCHANGED callVars

SpecResolve == InitResolve /\ [][Resolve]_vars

----------------------------------------------------------------------------
(* Properties *)

EndpointSet == {MCP_ENDPOINTS[i] : i \in 1..Len(MCP_ENDPOINTS)}

\* the value is the synthetic result of a call_mcp whose attempts all failed
IsUnavailable(v) == "debug_info" \in DOMAIN v

\* the value is an order record: an object with an identifier and no error
IsOrderRecord(v) ==
    /\ "nondict" \notin DOMAIN v
    /\ "order_number" \in DOMAIN v
    /\ "error" \notin DOMAIN v

\* the value is a not_found body
IsNotFound(v) == "error" \in DOMAIN v /\ v.error = "not_found"

\* C1: within one call_mcp invocation at most RETRY_ATTEMPTS endpoints are
\* posted to, every one of them is a registered endpoint and none is posted to
\* twice; a call that ends with the unavailable result has posted to exactly
\* min(RETRY_ATTEMPTS, number of distinct endpoints) endpoints, so with fewer
\* than RETRY_ATTEMPTS distinct endpoints the loop stops when all are tried.
C1_BoundedDistinctAttempts ==
    /\ Len(posted) <= RETRY_ATTEMPTS
    /\ \A i \in 1..Len(posted) : posted[i] \in EndpointSet
    /\ \A i, j \in 1..Len(posted) : i # j => posted[i] # posted[j]
    /\ (pc = "returned" /\ IsUnavailable(result))
          => Len(posted) = Min({RETRY_ATTEMPTS, Cardinality(EndpointSet)})

\* a call over a single distinct endpoint has ended after one attempt
C1_Witness ==
    /\ pc = "returned"
    /\ Cardinality(EndpointSet) < RETRY_ATTEMPTS
    /\ IsUnavailable(result)
    /\ Len(posted) = 1

\* C2 (as claimed): an order turn for an identifier that is not cached issues
\* exactly one call_mcp invocation, and at the end of the turn the identifier
\* is cached if and only if the call returned an order record.
C2_OneFetchCachedIffSuccess ==
    [][(pc = "returned" /\ lookup.type = "order"
            /\ lookup.value \notin DOMAIN SESSION_MEMORY)
        => /\ calls = 1 /\ calls' = 1
           /\ pc' = "input"
           /\ lookup.value \in DOMAIN SESSION_MEMORY' <=> IsOrderRecord(result)]_vars

\* C3: after a successful history fetch every row with a resolvable identifier
\* has a cache entry; entries are never dropped; and an order turn that names
\* a cached identifier is answered at once, with no call_mcp invocation.
C3_HistoryCachedAndReused ==
    [][/\ (pc = "returned" /\ lookup.type = "email"
              /\ "nondict" \notin DOMAIN result /\ "error" \notin DOMAIN result
              /\ "orders" \in DOMAIN result)
          => \A i \in 1..Len(result.orders) :
                LET n == result.orders[i].order_number
                IN  (n # NoneStr /\ n # <<>>) => n \in DOMAIN SESSION_MEMORY'
       /\ DOMAIN SESSION_MEMORY \subseteq DOMAIN SESSION_MEMORY'
       /\ (pc = "input" /\ pc' # "exited" /\ lookup'.type = "order"
              /\ lookup'.value \in DOMAIN SESSION_MEMORY)
          => /\ calls' = 0
             /\ pc' = "input"
             /\ posted' = <<>>
             /\ output'.msg \in {"field", "summary"}
             /\ output'.order_number = lookup'.value]_vars

\* an order turn was answered from a cached history row with no invocation
C3_Witness ==
    /\ pc = "input"
    /\ lookup.type = "order"
    /\ calls = 0
    /\ output.msg \in {"field", "summary"}
    /\ lookup.value \in DOMAIN SESSION_MEMORY
    /\ "order_date" \in DOMAIN SESSION_MEMORY[lookup.value]
    /\ Cardinality(DOMAIN SESSION_MEMORY) = 2

\* C4 (as claimed): every value in the session cache is an order record.
C4_OnlyOrderPayloadsCached ==
    \A k \in DOMAIN SESSION_MEMORY : IsOrderRecord(SESSION_MEMORY[k])

\* C5 (as claimed): an attempt whose reply has a status other than 200, or a
\* body that does not parse, records an error and leaves call_mcp in its loop
\* instead of returning that reply.
C5_Non200IsAttemptFailure ==
    [][(pc = "call" /\ posted' # posted /\ "status" \in DOMAIN resp'
            /\ (resp'.status # 200 \/ "json" \notin DOMAIN resp'))
        => /\ pc' = "call"
           /\ Len(errors') = Len(errors) + 1
           /\ errors'[Len(errors')].mcp_base = posted'[Len(posted')]]_vars

\* the state in which call_mcp has returned: either the body of the last
\* reply, which parsed, or the unavailable result with one error string per
\* endpoint posted to, in the order of the attempts
C6_Outcome ==
    IF posted # <<>> /\ "json" \in DOMAIN resp
    THEN /\ result = resp.json
         /\ ~IsUnavailable(result)
    ELSE /\ IsUnavailable(result)
         /\ result.error = "mcp_unavailable"
         /\ Len(result.debug_info) = Len(posted)
         /\ \A i \in 1..Len(posted) : result.debug_info[i].mcp_base = posted[i]

\* C6: every call_mcp invocation ends in exactly one outcome: the first reply
\* whose body parsed, returned by the attempt that received it, or, when no
\* attempt got such a reply, the unavailable result listing one error string
\* per endpoint attempted, in attempt order.
C6_ExactlyOneOutcome ==
    [][/\ (pc = "call" /\ posted' # posted /\ "json" \in DOMAIN resp')
          => (pc' = "returned" /\ result' = resp'.json)
       /\ (pc = "call" /\ pc' = "returned") => C6_Outcome'
       /\ pc = "returned" => pc' = "input"]_vars

\* two endpoints failed in different ways and the call gave up
C6_Witness ==
    /\ pc = "returned"
    /\ IsUnavailable(result)
    /\ Len(posted) = 2
    /\ Len(result.debug_info) = 2
    /\ result.debug_info[1].text # result.debug_info[2].text

\* C7: a not_found body ends the dispatch at once: the attempt that received
\* it returns it, and the turn then prints the not-found message for the
\* identifier or e-mail asked about, writes nothing to the cache and issues no
\* second invocation.
C7_NotFoundIsTerminal ==
    [][/\ (pc = "call" /\ posted' # posted /\ "json" \in DOMAIN resp'
              /\ IsNotFound(resp'.json))
          => (pc' = "returned" /\ result' = resp'.json)
       /\ (pc = "returned" /\ IsNotFound(result))
          => /\ pc' = "input"
             /\ calls' = 1
             /\ SESSION_MEMORY' = SESSION_MEMORY
             /\ output' = IF tool = "get_order_status"
                          THEN [msg |-> "not_found", order_number |-> key]
                          ELSE [msg |-> "not_found", email |-> key]]_vars

\* an order turn ended with the not-found message after its one invocation,
\* and the identifier is not cached
C7_Witness ==
    /\ pc = "input"
    /\ lookup.type = "order"
    /\ calls = 1
    /\ output = [msg |-> "not_found", order_number |-> lookup.value]
    /\ lookup.value \notin DOMAIN SESSION_MEMORY

\* the reply of a health probe that makes an endpoint usable
Usable(r) ==
    /\ "status_code" \in DOMAIN r
    /\ r.status_code = 200
    /\ r.status \in {"ok", "degraded"}

\* C8: at startup every endpoint of the list is probed, and an endpoint counts
\* as usable only if its probe was answered with status ok or degraded; when
\* no probe was, the session refuses to start: it prints the endpoint list,
\* reads no input, issues no invocation, writes nothing to the cache, and
\* takes no further step.
C8_RefusesWithoutUsableEndpoint ==
    [][/\ pc = "start"
          => /\ pc' = "probed"
             /\ Len(health') = Len(MCP_ENDPOINTS)
             /\ \A i \in 1..Len(healthy_mcps') :
                   \E j \in 1..Len(MCP_ENDPOINTS) :
                      MCP_ENDPOINTS[j] = healthy_mcps'[i] /\ Usable(health'[j])
       /\ (pc = "probed" /\ ~\E j \in 1..Len(health) : Usable(health[j]))
          => /\ pc' = "refused"
             /\ output' = [msg |-> "no_mcp", endpoints |-> MCP_ENDPOINTS]
             /\ u' = <<>> /\ calls' = 0 /\ posted' = <<>>
             /\ DOMAIN SESSION_MEMORY' = {}
       /\ pc # "refused"]_vars

\* the session refused to start although a probe was answered (with a status
\* that is neither ok nor degraded)
C8_Witness ==
    /\ pc = "refused"
    /\ output.msg = "no_mcp"
    /\ \E j \in 1..Len(health) : "status_code" \in DOMAIN health[j]

\* the last row of a history reply that carries identifier k
LastRowFor(orders, k) ==
    orders[Max({i \in 1..Len(orders) : orders[i].order_number = k})]

\* C9: a cache entry is never removed, and its value changes only when a
\* fetch writes it: a history reply leaves under each identifier it names the
\* last row carrying that identifier, a single-order fetch leaves the record
\* it returned, and every other entry keeps its value.
C9_NeverRemovedLastWriteWins ==
    [][/\ DOMAIN SESSION_MEMORY \subseteq DOMAIN SESSION_MEMORY'
       /\ \A k \in DOMAIN SESSION_MEMORY' :
             IF /\ pc = "returned" /\ lookup.type = "email"
                /\ "nondict" \notin DOMAIN result /\ "error" \notin DOMAIN result
                /\ "orders" \in DOMAIN result
                /\ \E i \in 1..Len(result.orders) : result.orders[i].order_number = k
             THEN SESSION_MEMORY'[k] = LastRowFor(result.orders, k)
             ELSE IF /\ pc = "returned" /\ tool = "get_order_status" /\ key = k
                     /\ "nondict" \notin DOMAIN result /\ "error" \notin DOMAIN result
             THEN SESSION_MEMORY'[k] = result
             ELSE k \in DOMAIN SESSION_MEMORY /\ SESSION_MEMORY'[k] = SESSION_MEMORY[k]]_vars

\* a history listing the same identifier twice with different statuses was
\* printed, and the cache holds the later of the two rows
C9_Witness ==
    /\ pc = "input"
    /\ output.msg = "history"
    /\ Len(output.lines) = 2
    /\ output.lines[1].order_num = ORD1
    /\ output.lines[2].order_num = ORD1
    /\ output.lines[1].status # output.lines[2].status
    /\ ORD1 \in DOMAIN SESSION_MEMORY
    /\ SESSION_MEMORY[ORD1].status = output.lines[2].status

\* the text resolved to an order, has a total keyword and contains "items"
TotalAndItems ==
    /\ pc = "resolved"
    /\ lookup.type = "order"
    /\ \E k \in TotalKeywords : Contains(lower(u), k)
    /\ Contains(lower(u), K_items)

\* C10 (as claimed): an order text with a total keyword and the word "items"
\* resolves to the field total, in detect_lookup_type and in the turn loop.
C10_TotalWinsOverItems ==
    TotalAndItems => /\ lookup.field = "total"
                     /\ output = [msg |-> "field", field |-> "total",
                                  order_number |-> lookup.value]

\* C10 (amended): for such a text the total rule is suppressed: the field is
\* never total; it is status, shipping address or tracking when one of those
\* rules matches, and items otherwise, as for the text "What's the total
\* cost of ORD-2024-001 items"; the turn loop extracts the same field.
C10_ItemsSuppressesTotal ==
    TotalAndItems
    => /\ lookup.field \in {"status", "shipping address", "tracking", "items"}
       /\ (/\ ~\E k \in StatusKeywords \cup ShippingKeywords \cup TrackingKeywords :
                 Contains(lower(u), k))
          => lookup.field = "items"
       /\ u = T_TotalItems => lookup.field = "items"
       /\ output = [msg |-> "field", field |-> lookup.field,
                    order_number |-> lookup.value]

\* the example text was resolved, to items
C10_Witness ==
    /\ pc = "resolved"
    /\ u = T_TotalItems
    /\ lookup = [type |-> "order", value |-> ORD1, field |-> "items"]
    /\ output.field = "items"

\* the text resolved to an order and contains "tracking"
OrderTextWithTracking ==
    /\ pc = "resolved"
    /\ lookup.type = "order"
    /\ Contains(lower(u), K_tracking)

\* C11: for an order text that contains "tracking" the field is never
\* shipping address, in detect_lookup_type and in the turn loop, and it is
\* tracking unless the total rule (a total keyword without "items") or the
\* status rule matches; "tracking for ORD-2024-002 shipping to NY" resolves
\* to tracking.
C11_TrackingSuppressesShipping ==
    OrderTextWithTracking
    => /\ lookup.field # "shipping address"
       /\ output.msg = "field" /\ output.field # "shipping address"
       /\ (/\ ~((\E k \in TotalKeywords : Contains(lower(u), k))
                  /\ ~Contains(lower(u), K_items))
           /\ ~\E k \in StatusKeywords : Contains(lower(u), k))
          => /\ lookup.field = "tracking"
             /\ output = [msg |-> "field", field |-> "tracking",
                          order_number |-> lookup.value]
       /\ u = T_TrackShip => lookup.field = "tracking"

\* the example text, which also has a shipping keyword, was resolved to tracking
C11_Witness ==
    /\ pc = "resolved"
    /\ u = T_TrackShip
    /\ \E k \in ShippingKeywords : Contains(lower(u), k)
    /\ lookup = [type |-> "order", value |-> ORD2, field |-> "tracking"]
    /\ output.field = "tracking"

\* the one priority order of the field rules, the date rule left out: total
\* (without "items"), status, shipping (without "tracking"), tracking, items,
\* e-mail
FixedPriorityField(t) ==
    IF (\E k \in TotalKeywords : Contains(t, k)) /\ ~Contains(t, K_items) THEN "total"
    ELSE IF \E k \in StatusKeywords : Contains(t, k) THEN "status"
    ELSE IF (\E k \in ShippingKeywords : Contains(t, k)) /\ ~Contains(t, K_tracking)
         THEN "shipping address"
    ELSE IF \E k \in TrackingKeywords : Contains(t, k) THEN "tracking"
    ELSE IF \E k \in ItemsKeywords : Contains(t, k) THEN "items"
    ELSE IF \E k \in EmailKeywords : Contains(t, k) THEN "email"
    ELSE None

\* C12 (as claimed): a text resolved to kind email gets its field from the
\* same priority order as an order text, the date rule excepted: the field is
\* never date, and a text with a total keyword (and no "items") and a status
\* keyword resolves to total.
C12_EmailPathSameOrderNoDate ==
    (pc = "resolved" /\ lookup.type = "email")
    => /\ lookup.field # "date"
       /\ (Contains(lower(u), K_total) /\ ~Contains(lower(u), K_items)
              /\ Contains(lower(u), K_status))
          => lookup.field = "total"
       /\ lookup.field = FixedPriorityField(lower(u))

\* C12 (amended): a text resolved to kind email gets its field from a chain
\* of its own, in the order status, total (without "items"), items, date:
\* a text with a total keyword and a status keyword resolves to status, and
\* date/"when" keywords yield date when none of the three rules before
\* matches; shipping, tracking and e-mail keywords yield no field.
C12_EmailPathOwnChain ==
    (pc = "resolved" /\ lookup.type = "email")
    => LET t == lower(u)
       IN  /\ Contains(t, K_status) => lookup.field = "status"
           /\ (~Contains(t, K_status) /\ Contains(t, K_total) /\ ~Contains(t, K_items))
              => lookup.field = "total"
           /\ (~Contains(t, K_status) /\ Contains(t, K_items))
              => lookup.field = "items"
           /\ (~Contains(t, K_status) /\ ~Contains(t, K_total) /\ ~Contains(t, K_items)
                  /\ (Contains(t, K_date) \/ Contains(t, K_when)))
              => lookup.field = "date"
           /\ lookup.field \in {"status", "total", "items", "date", None}
           /\ output = NoOutput

\* an e-mail text with a total keyword and a status keyword was resolved, to
\* status
C12_Witness ==
    /\ pc = "resolved"
    /\ lookup.type = "email"
    /\ Contains(lower(u), K_total) /\ ~Contains(lower(u), K_items)
    /\ Contains(lower(u), K_status)
    /\ lookup.field = "status"

----------------------------------------------------------------------------
(* call_mcp on its own, against endpoints whose behaviour is fixed for the  *)
(* call: the endpoints of down.failing fail, the others answer              *)

InitDispatch ==
    /\ MCP_ENDPOINTS \in EndpointLists
    /\ down \in {Fixed(f) : f \in SUBSET Addrs}
    /\ SESSION_MEMORY = [x \in {} |-> NoResult]
    /\ pc = "call"
    /\ health = <<>>
    /\ healthy_mcps = <<>>
    /\ u = <<>>
    /\ lookup = NoLookup
    /\ \E call \in {<<"get_order_status", ORD1>>,
                     <<"get_order_history_by_email", EMAIL1>>} :
          tool = call[1] /\ key = call[2]
    /\ tried = {}
    /\ errors = <<>>
    /\ attempt = 0
    /\ posted = <<>>
    /\ resp = NoResult
    /\ result = NoResult
    /\ calls = 1
    /\ output = NoOutput

NextDispatch == Attempt \/ GiveUp

SpecDispatch == InitDispatch /\ [][NextDispatch]_vars

\* the endpoints of the list that fail in this call
FailingEndpoints == down.failing \cap EndpointSet

\* C16: when at least RETRY_ATTEMPTS distinct endpoints are registered and
\* fewer than RETRY_ATTEMPTS of them fail, the others returning a body that
\* parses, call_mcp returns such a body, got from an endpoint that does not
\* fail, whatever the random picks were, and never the unavailable result;
\* the unavailable result is returned only after min(RETRY_ATTEMPTS, number of
\* endpoints) failing endpoints were posted to.
C16_FailoverGuarantee ==
    pc = "returned"
    => /\ (Cardinality(EndpointSet) >= RETRY_ATTEMPTS
              /\ Cardinality(FailingEndpoints) < RETRY_ATTEMPTS)
          => /\ ~IsUnavailable(result)
             /\ "json" \in DOMAIN resp /\ result = resp.json
             /\ posted[Len(posted)] \notin down.failing
       /\ IsUnavailable(result)
          => /\ \A i \in 1..Len(posted) : posted[i] \in FailingEndpoints
             /\ Len(posted) = Min({RETRY_ATTEMPTS, Cardinality(EndpointSet)})

\* RETRY_ATTEMPTS endpoints fail, one endpoint of the list works, and the
\* call ended with the unavailable result without posting to it
C16_Witness ==
    /\ pc = "returned"
    /\ IsUnavailable(result)
    /\ Cardinality(FailingEndpoints) >= RETRY_ATTEMPTS
    /\ EndpointSet \ down.failing # {}
    /\ \A i \in 1..Len(posted) : posted[i] \in down.failing

----------------------------------------------------------------------------
(* Formatting and extraction: the values of a record carry their Python    *)
(* type; a number is held in hundredths                                     *)

\* number of line items of a record
MaxItems == 2

Num(c) == [num |-> c]
Str(s) == [str |-> s]
PyNone == [none |-> TRUE]
List(xs) == [list |-> xs]
Dict(d) == [dict |-> d]
\* an exception that leaves the function
Exc(kind) == [exc |-> kind]

\* isinstance(v, t), and for "exc": the function raised
Is(v, t) == t \in DOMAIN v

\* bool(v): None, 0, "", [] and {} are falsy
Bool(v) ==
    CASE Is(v, "none") -> FALSE
      [] Is(v, "num") -> v.num # 0
      [] Is(v, "str") -> v.str # <<>>
      [] Is(v, "list") -> v.list # <<>>
      [] Is(v, "dict") -> DOMAIN v.dict # {}

\* a or b or ... : the first truthy operand, else the last one
RECURSIVE Or(_)
Or(vs) ==
    IF Len(vs) = 1 \/ Bool(Head(vs)) THEN Head(vs) ELSE Or(Tail(vs))

\* d.get(k) of a dict
Get(d, k) == IF k \in DOMAIN d.dict THEN d.dict[k] ELSE PyNone

RECURSIVE IntStr(_)
IntStr(n) ==
    IF n < 10 THEN <<Digits[n + 1]>>
    ELSE IntStr(n \div 10) \o <<Digits[(n % 10) + 1]>>

TwoDigits(n) == <<Digits[(n \div 10) + 1], Digits[(n % 10) + 1]>>

\* str(v) of a number, a string or None; a whole number is an int
PyStr(v) ==
    CASE Is(v, "str") -> v.str
      [] Is(v, "none") -> <<"N","o","n","e">>
      [] Is(v, "num") ->
            IF v.num % 100 = 0 THEN IntStr(v.num \div 100)
            ELSE IntStr(v.num \div 100) \o <<".">>
                 \o (IF v.num % 10 = 0 THEN <<Digits[((v.num % 100) \div 10) + 1]>>
                     ELSE TwoDigits(v.num % 100))

AllDigits(s) == s # <<>> /\ \A i \in 1..Len(s) : IsDigit(s[i])

RECURSIVE ToInt(_)
ToInt(s) ==
    IF s = <<>> THEN 0
    ELSE 10 * ToInt(SubSeq(s, 1, Len(s) - 1)) + (AlphaIndex(Digits, s[Len(s)]) - 1)

\* float(v): a number, or a string of digits with at most two decimals (the
\* numeric strings of the records); anything else raises
PyFloat(v) ==
    CASE Is(v, "num") -> Num(v.num)
      [] Is(v, "str") ->
            IF AllDigits(v.str) THEN Num(100 * ToInt(v.str))
            ELSE IF \E p \in 2..Len(v.str) - 1 :
                        /\ v.str[p] = "."
                        /\ AllDigits(SubSeq(v.str, 1, p - 1))
                        /\ AllDigits(SubSeq(v.str, p + 1, Len(v.str)))
                        /\ Len(v.str) - p <= 2
                 THEN LET p == CHOOSE i \in 2..Len(v.str) - 1 : v.str[i] = "."
                          frac == SubSeq(v.str, p + 1, Len(v.str))
                      IN  Num(100 * ToInt(SubSeq(v.str, 1, p - 1))
                              + (IF Len(frac) = 1 THEN 10 * ToInt(frac) ELSE ToInt(frac)))
                 ELSE Exc("ValueError")
      [] OTHER -> Exc("TypeError")

\* int(v): truncates a number, parses a string of digits; anything else raises
PyInt(v) ==
    CASE Is(v, "num") -> Num(100 * (v.num \div 100))
      [] Is(v, "str") -> IF AllDigits(v.str) THEN Num(100 * ToInt(v.str)) ELSE Exc("ValueError")
      [] OTHER -> Exc("TypeError")

_is_number_like(x) == ~Is(PyFloat(x), "exc")

RECURSIVE Grouped(_)
\* the ",d" grouping of the integer part
Grouped(n) ==
    IF n < 1000 THEN IntStr(n)
    ELSE Grouped(n \div 1000) \o <<",">>
         \o <<Digits[((n % 1000) \div 100) + 1]>> \o TwoDigits(n % 100)

_fmt_currency(value) ==
    LET \* f"${x:,.2f}"
        Money(c) == <<"$">> \o Grouped(c \div 100) \o <<".">> \o TwoDigits(c % 100)
    IN  IF Is(value, "none") THEN PyNone
        ELSE IF ~Is(PyFloat(value), "exc") THEN Str(Money(PyFloat(value).num))
        ELSE Str(PyStr(value))

\* datetime.fromisoformat accepts s, for the date-only strings YYYY-MM-DD
IsIsoDate(s) ==
    LET IsLeap(y) == (y % 4 = 0 /\ y % 100 # 0) \/ y % 400 = 0
        DaysIn(y, m) ==
            IF m = 2 THEN (IF IsLeap(y) THEN 29 ELSE 28)
            ELSE IF m \in {4, 6, 9, 11} THEN 30 ELSE 31
    IN
    /\ Len(s) = 10
    /\ s[5] = "-" /\ s[8] = "-"
    /\ AllDigits(SubSeq(s, 1, 4)) /\ AllDigits(SubSeq(s, 6, 7)) /\ AllDigits(SubSeq(s, 9, 10))
    /\ ToInt(SubSeq(s, 1, 4)) >= 1
    /\ ToInt(SubSeq(s, 6, 7)) \in 1..12
    /\ ToInt(SubSeq(s, 9, 10)) \in 1..DaysIn(ToInt(SubSeq(s, 1, 4)), ToInt(SubSeq(s, 6, 7)))

_fmt_date(value) ==
    LET MonthAbbr ==
            <<<<"J","a","n">>, <<"F","e","b">>, <<"M","a","r">>, <<"A","p","r">>,
              <<"M","a","y">>, <<"J","u","n">>, <<"J","u","l">>, <<"A","u","g">>,
              <<"S","e","p">>, <<"O","c","t">>, <<"N","o","v">>, <<"D","e","c">>>>
        \* strftime("%b %d, %Y")
        StrfDate(s) ==
            MonthAbbr[ToInt(SubSeq(s, 6, 7))] \o <<" ">> \o SubSeq(s, 9, 10)
                \o <<",", " ">> \o SubSeq(s, 1, 4)
    IN  IF ~Bool(value) THEN PyNone
        ELSE IF ~Is(value, "str") THEN value
        ELSE IF IsIsoDate(value.str) THEN Str(StrfDate(value.str))
        ELSE LET v == IF value.str[Len(value.str)] = "Z"
                      THEN SubSeq(value.str, 1, Len(value.str) - 1) ELSE value.str
             IN  IF IsIsoDate(v) THEN Str(StrfDate(v)) ELSE Str(v)

\* _get with dotted keys: each key is the sequence of its parts
\* lines 151-161: the value at the end of a dotted path, if every part is
\* a key of the dict reached so far
RECURSIVE Walk(_, _)
Walk(cur, parts) ==
    IF parts = <<>> THEN [ok |-> TRUE, v |-> cur]
    ELSE IF Is(cur, "dict") /\ Head(parts) \in DOMAIN cur.dict
         THEN Walk(cur.dict[Head(parts)], Tail(parts))
         ELSE [ok |-> FALSE]

RECURSIVE _get_nested(_, _)
_get_nested(order, keys) ==
    IF keys = <<>> THEN PyNone
    ELSE IF Walk(Dict(order), Head(keys)).ok THEN Walk(Dict(order), Head(keys)).v
    ELSE _get_nested(order, Tail(keys))

\* sep.join(parts) of strings
RECURSIVE Join(_, _)
Join(sep, parts) ==
    IF parts = <<>> THEN <<>>
    ELSE IF Len(parts) = 1 THEN parts[1]
    ELSE parts[1] \o sep \o Join(sep, Tail(parts))

\* the truthy values of vs, in order
RECURSIVE Truthies(_)
Truthies(vs) ==
    IF vs = <<>> THEN <<>>
    ELSE (IF Bool(Head(vs)) THEN <<Head(vs)>> ELSE <<>>) \o Truthies(Tail(vs))

\* sep.join(vs): raises on a value that is not a string
JoinValues(sep, vs) ==
    IF \E i \in 1..Len(vs) : ~Is(vs[i], "str") THEN Exc("TypeError")
    ELSE Str(Join(sep, [i \in 1..Len(vs) |-> vs[i].str]))

\* one line item of format_items (lines 171-178)
ItemText(it) ==
    IF ~Is(it, "dict") THEN Exc("AttributeError")
    ELSE LET name == Or(<<Get(it, "name"), Get(it, "title"), Get(it, "sku"), Str(<<"I","t","e","m">>)>>)
             qty == Or(<<Get(it, "qty"), Get(it, "quantity"), Get(it, "qty_ordered"), Num(100)>>)
             price == Or(<<Get(it, "price"), Get(it, "unit_price"), Get(it, "unitPrice"),
                           Get(it, "amount")>>)
             price_s == IF ~Is(price, "none") THEN _fmt_currency(price) ELSE PyNone
         IN  IF Is(PyInt(qty), "exc") THEN PyInt(qty)
             ELSE IF Bool(price_s)
             THEN Str(PyStr(name) \o <<" ", "(">> \o PyStr(PyInt(qty)) \o <<" ","x"," ">>
                      \o price_s.str \o <<")">>)
             ELSE Str(PyStr(name) \o <<" ", "(">> \o PyStr(PyInt(qty)) \o <<" ","x"," ","q","t","y","=">>
                      \o PyStr(qty) \o <<")">>)

\* the positions of a sequence of results at which an exception was raised
Raising(rs) == {i \in 1..Len(rs) : Is(rs[i], "exc")}

\* the loop ends at the first line item that raises
format_items(items) ==
    LET parts == [i \in 1..Len(items) |-> ItemText(items[i])]
    IN  IF Raising(parts) # {} THEN parts[Min(Raising(parts))]
        ELSE IF parts = <<>> THEN Str(<<"(","n","o"," ","i","t","e","m","s",")">>)
        ELSE Str(Join(<<","," ">>, [i \in 1..Len(parts) |-> parts[i].str]))

\* the address text of a shipping address that is a dict
AddressText(ship_addr) ==
    LET addr_parts == Truthies(<<Get(ship_addr, "line1"), Get(ship_addr, "street"),
                                 Get(ship_addr, "address1"), Get(ship_addr, "street1")>>)
        city == Get(ship_addr, "city")
        state == Get(ship_addr, "state")
        postal == Or(<<Get(ship_addr, "postal_code"), Get(ship_addr, "zip"),
                       Get(ship_addr, "postal")>>)
        country == Get(ship_addr, "country")
        street == JoinValues(<<" ">>, addr_parts)
        city_state == JoinValues(<<","," ">>, Truthies(<<city, state>>))
    IN  IF Is(street, "exc") THEN street
        ELSE IF Is(city_state, "exc") THEN city_state
        ELSE JoinValues(<<","," ">>, Truthies(<<street, city_state, postal, country>>))

RECURSIVE SumNums(_)
\* t after the additions of lines 204-214
SumNums(ns) == IF ns = <<>> THEN 0 ELSE Head(ns).num + SumNums(Tail(ns))

\* the derived total (lines 203-217): None when a conversion raises or the
\* sum is zero
DerivedTotal(items, shipping_cost, tax) ==
    LET ItemAmount(it) ==
            IF ~Is(it, "dict") THEN Exc("AttributeError")
            ELSE LET p == Or(<<Get(it, "price"), Get(it, "unit_price"), Get(it, "amount")>>)
                     q == Or(<<Get(it, "qty"), Get(it, "quantity"), Num(100)>>)
                 IN  IF Is(p, "none") THEN Num(0)
                     ELSE IF Is(PyFloat(p), "exc") THEN PyFloat(p)
                     ELSE IF Is(PyInt(q), "exc") THEN PyInt(q)
                     ELSE Num(PyFloat(p).num * (PyInt(q).num \div 100))
        amounts == IF Is(items, "list")
                   THEN [i \in 1..Len(items.list) |-> ItemAmount(items.list[i])]
                   ELSE <<>>
        ship == IF Bool(shipping_cost) THEN PyFloat(shipping_cost) ELSE Num(0)
        tx == IF Bool(tax) THEN PyFloat(tax) ELSE Num(0)
        all == amounts \o <<ship, tx>>
    IN  IF Raising(all) # {} \/ SumNums(all) = 0 THEN PyNone
        ELSE Num(SumNums(all))

build_order_summary(order) ==
    LET customer_name == _get_nested(order, <<<<"customer_name">>, <<"customer", "name">>,
                                              <<"name">>, <<"customer_name">>>>)
        customer_email == _get_nested(order, <<<<"customer_email">>, <<"email">>,
                                               <<"customer", "email">>>>)
        order_number == Or(<<_get_nested(order, <<<<"order_number">>, <<"order_id">>, <<"id">>>>),
                             Str(<<"(","u","n","k","n","o","w","n"," ","o","r","d","e","r",")">>)>>)
        items == Or(<<_get_nested(order, <<<<"items">>, <<"line_items">>, <<"order_items">>>>),
                      List(<<>>)>>)
        items_str == IF Is(items, "list") THEN format_items(items.list) ELSE Str(PyStr(items))
        total == _get_nested(order, <<<<"total_amount">>, <<"total">>, <<"grand_total">>,
                                      <<"amount">>>>)
        tax == _get_nested(order, <<<<"tax">>, <<"tax_amount">>, <<"taxAmount">>>>)
        shipping_cost == _get_nested(order, <<<<"shipping_cost">>, <<"shipping", "amount">>,
                                              <<"shipping_cost">>>>)
        total_val == IF ~Is(total, "none") /\ ~Is(PyFloat(total), "exc") THEN PyFloat(total)
                     ELSE DerivedTotal(items, shipping_cost, tax)
        total_s == IF ~Is(total_val, "none") THEN _fmt_currency(total_val)
                   ELSE IF Is(total, "num") THEN _fmt_currency(total) ELSE PyNone
        status == Or(<<_get_nested(order, <<<<"status">>>>), Str(UNKNOWN)>>)
        ship_addr == _get_nested(order, <<<<"shipping", "address">>, <<"shipping_address">>,
                                          <<"shippingAddress">>, <<"address">>>>)
        addr == IF Is(ship_addr, "dict") THEN AddressText(ship_addr)
                ELSE Or(<<ship_addr, Str(<<"(","n","o"," ","s","h","i","p","p","i","n","g"," ","a","d","d","r","e","s","s",")">>)>>)
        tracking == _get_nested(order, <<<<"shipping", "tracking_number">>, <<"tracking_number">>,
                                         <<"tracking">>, <<"shipping", "tracking">>>>)
        delivered_date == _get_nested(order, <<<<"delivered_at">>, <<"delivery_date">>,
                                               <<"shipping", "delivered_at">>>>)
        delivered_s == IF Bool(delivered_date) THEN _fmt_date(delivered_date) ELSE PyNone
        notes == _get_nested(order, <<<<"notes">>, <<"note">>, <<"customer_notes">>,
                                      <<"internal_notes">>>>)
        greet == IF Bool(customer_name)
                 THEN <<"H","e","l","l","o">> \o <<" ">> \o PyStr(customer_name) \o <<"!", " ">>
                 ELSE <<"H","e","l","l","o">> \o <<"!", " ">>
        first == greet \o <<"Y","o","u","r"," ","o","r","d","e","r"," ">> \o PyStr(order_number) \o <<" ","i","s"," ">> \o PyStr(status) \o <<".">>
        Part(cond, label, v) == IF cond THEN <<label \o PyStr(v) \o <<".">>>> ELSE <<>>
    IN  IF Is(items_str, "exc") THEN items_str
        ELSE IF Is(addr, "exc") THEN addr
        ELSE Str(Join(<<" ">>,
                 <<first>>
                 \o Part(Bool(customer_email), <<"C","u","s","t","o","m","e","r"," ","e","m","a","i","l",":"," ">>, customer_email)
                 \o <<<<"I","t","e","m","s",":"," ">> \o items_str.str \o <<".">>>>
                 \o Part(Bool(total_s), <<"T","o","t","a","l",":"," ">>, total_s)
                 \o Part(Bool(addr), <<"S","h","i","p","p","i","n","g"," ","t","o",":"," ">>, addr)
                 \o Part(Bool(tracking), <<"T","r","a","c","k","i","n","g",":"," ">>, tracking)
                 \o Part(Bool(delivered_s), <<"D","e","l","i","v","e","r","e","d"," ","o","n",":"," ">>, delivered_s)
                 \o Part(Bool(notes), <<"N","o","t","e","s",":"," ">>, notes)))

\* the logical field names extract_field knows, and one it does not
FieldNames ==
    {"status", "order status", "total", "total cost", "total amount", "total price",
     "shipping address", "shipping", "address", "tracking", "tracking number",
     "items", "order items", "customer", "customer name", "name", "email",
     "customer email", "notes", "note", "date", "order date", "weight"}

\* the field names are lower case already, so that f = field
extract_field(order, f) ==
    IF f \in {"status", "order status"}
    THEN Str(PyStr(Or(<<_get_nested(order, <<<<"status">>>>), Str(UNKNOWN)>>)))
    ELSE IF f \in {"total", "total cost", "total amount", "total price"}
    THEN LET total == _get_nested(order, <<<<"total_amount">>, <<"total">>,
                                            <<"grand_total">>, <<"amount">>>>)
         IN  IF Is(total, "none") THEN build_order_summary(order)
             ELSE IF Is(total, "num") THEN _fmt_currency(total)
             ELSE IF _is_number_like(total) THEN _fmt_currency(PyFloat(total))
             ELSE Str(PyStr(total))
    ELSE IF f \in {"shipping address", "shipping", "address"}
    THEN LET ship_addr == _get_nested(order, <<<<"shipping", "address">>,
                                                <<"shipping_address">>, <<"address">>>>)
         IN  IF Is(ship_addr, "dict") THEN AddressText(ship_addr)
             ELSE Str(PyStr(Or(<<ship_addr, Str(<<"(","n","o"," ","s","h","i","p","p","i","n","g"," ","a","d","d","r","e","s","s",")">>)>>)))
    ELSE IF f \in {"tracking", "tracking number"}
    THEN Str(PyStr(Or(<<_get_nested(order, <<<<"shipping", "tracking_number">>,
                                              <<"tracking_number">>, <<"tracking">>>>),
                        Str(<<"(","n","o"," ","t","r","a","c","k","i","n","g"," ","n","u","m","b","e","r",")">>)>>)))
    ELSE IF f \in {"items", "order items"}
    THEN LET items == Or(<<_get_nested(order, <<<<"items">>, <<"line_items">>,
                                                 <<"order_items">>>>), List(<<>>)>>)
         IN  IF Is(items, "list") THEN format_items(items.list) ELSE Str(PyStr(items))
    ELSE IF f \in {"customer", "customer name", "name"}
    THEN Str(PyStr(Or(<<_get_nested(order, <<<<"customer_name">>, <<"customer", "name">>,
                                              <<"name">>>>), Str(<<"(","n","o"," ","n","a","m","e",")">>)>>)))
    ELSE IF f \in {"email", "customer email"}
    THEN Str(PyStr(Or(<<_get_nested(order, <<<<"customer_email">>, <<"email">>,
                                              <<"customer", "email">>>>), Str(<<"(","n","o"," ","e","m","a","i","l",")">>)>>)))
    ELSE IF f \in {"notes", "note"}
    THEN Str(PyStr(Or(<<_get_nested(order, <<<<"notes">>, <<"note">>, <<"customer_notes">>,
                                              <<"internal_notes">>>>), Str(<<"(","n","o"," ","n","o","t","e","s",")">>)>>)))
    ELSE IF f \in {"date", "order date"}
    THEN LET date == _get_nested(order, <<<<"order_date">>, <<"created_at">>, <<"date">>>>)
         IN  IF Bool(date) THEN _fmt_date(date) ELSE Str(<<"(","n","o"," ","d","a","t","e",")">>)
    ELSE build_order_summary(order)

----------------------------------------------------------------------------
(* Extraction on its own: a turn of the loop for an order record that is   *)
(* in the session cache, for records drawn from the shapes a backend       *)
(* document can have                                                        *)

ExtractRecords ==
    LET
    Items ==
        {Dict([price |-> Num(1000), qty |-> Num(200)]),
         Dict([name |-> Str(<<"P","e","n">>), quantity |-> Num(300), unit_price |-> Num(125)]),
         Dict([name |-> Str(<<"C","a","p">>)]),
         Dict([name |-> Str(<<"P","e","n">>), qty |-> Str(<<"t","w","o">>), price |-> Num(100)]),
         Dict([sku |-> Str(<<"A","1">>), qty |-> Str(<<"2">>), price |-> Str(<<"a","b","c">>)]),
         Str(<<"p","e","n">>)}

    EmptyRecord == [k \in {} |-> PyNone]

    ItemsPieces ==
        {EmptyRecord, [items |-> Str(<<"2"," ","p","e","n","s">>)]}
        \cup {[items |-> List(xs)] : xs \in SeqsUpTo(Items, MaxItems)}

    TotalPieces ==
        {EmptyRecord,
         [total_amount |-> Num(123456)],
         [total_amount |-> PyNone],
         [total_amount |-> Str(<<"n","/","a">>)],
         [total |-> Str(<<"1","2",".","5","0">>)]}

    ChargePieces ==
        {EmptyRecord,
         [shipping_cost |-> Num(500)],
         [shipping_cost |-> Num(500), tax |-> Num(200)]}

    OtherPieces ==
        {EmptyRecord,
         [order_number |-> Str(ORD1), status |-> Str(<<"s","h","i","p","p","e","d">>),
          customer |-> Dict([name |-> Str(<<"B","o","b">>), email |-> Str(EMAIL1)]),
          order_date |-> Str(<<"2","0","2","4","-","0","1","-","0","5">>),
          shipping_address |-> Dict([line1 |-> Str(<<"1"," ","M","a","i","n">>), city |-> Str(<<"N","Y">>),
                                     state |-> Str(<<"N","Y">>), zip |-> Str(<<"1","0","0","0","1">>),
                                     country |-> Str(<<"U","S">>)])],
         [order_number |-> Str(ORD1),
          shipping_address |-> Dict([line1 |-> Str(<<"1"," ","M","a","i","n">>), zip |-> Num(1000100)])],
         [order_number |-> Str(ORD1), customer_name |-> Str(<<"B","o","b">>),
          shipping_address |-> Str(<<"1"," ","M","a","i","n">>), tracking_number |-> Str(<<"T","R","K","1">>),
          delivered_at |-> Str(<<"2","0","2","4","-","0","2","-","0","1","Z">>), notes |-> Str(<<"g","i","f","t">>),
          order_date |-> Str(<<"s","o","o","n">>)]}
    IN  {i @@ t @@ c @@ o : i \in ItemsPieces, t \in TotalPieces,
                            c \in ChargePieces, o \in OtherPieces}

InitExtract ==
    /\ MCP_ENDPOINTS = [i \in 1..NumEndpoints |-> 1]
    /\ down = Free
    /\ \E order \in ExtractRecords : SESSION_MEMORY = (ORD1 :> order)
    /\ pc = "extract"
    /\ health = <<>>
    /\ healthy_mcps = <<>>
    /\ u = <<>>
    /\ lookup = NoLookup
    /\ tool = None
    /\ key = NoneStr
    /\ tried = {}
    /\ errors = <<>>
    /\ attempt = 0
    /\ posted = <<>>
    /\ resp = NoResult
    /\ result = NoResult
    /\ calls = 0
    /\ output = NoOutput

\* lines 453-488 with the cached record in hand (line 433): the field asked
\* for is extracted, or the summary built, and printed, and the loop is back
\* at its input; an exception leaves the loop
Extract ==
    /\ pc = "extract"
    /\ \E field \in FieldNames \cup {None} :
       LET order == SESSION_MEMORY[ORD1]
           out == IF field = None THEN build_order_summary(order)
                  ELSE extract_field(order, field)
       IN  /\ lookup' = [type |-> "order", value |-> ORD1, field |-> field]
           /\ IF Is(out, "exc")
              THEN /\ output' = [msg |-> "traceback", exc |-> out.exc]
                   /\ pc' = "crashed"
              ELSE /\ output' = [msg |-> IF field = None THEN "summary" ELSE "field",
                                 order_number |-> ORD1, text |-> PyStr(out)]
                   /\ pc' = "input"
    /\ UNCHANGED <<MCP_ENDPOINTS, down, SESSION_MEMORY, health, healthy_mcps, u, calls>>
    /\ UNCHANGED callVars

SpecExtract == InitExtract /\ [][Extract]_vars

\* the record of the extraction turn
ExtractedOrder == SESSION_MEMORY[ORD1]

\* the rendering the derived total of 25 is to have
V_25_00 == <<"$","2","5",".","0","0">>

\* no direct total key of the record resolves
NoDirectTotal(order) ==
    Is(_get_nested(order, <<<<"total_amount">>, <<"total">>, <<"grand_total">>,
                                 <<"amount">>>>), "none")

\* the sum of the line items' price times quantity, shipping cost and tax
DerivedSum(order) ==
    DerivedTotal(Or(<<_get_nested(order, <<<<"items">>, <<"line_items">>, <<"order_items">>>>),
                      List(<<>>)>>),
                 _get_nested(order, <<<<"shipping_cost">>, <<"shipping", "amount">>>>),
                 _get_nested(order, <<<<"tax">>, <<"tax_amount">>, <<"taxAmount">>>>))

\* C13 (as claimed): extracting the field total from a record in which no
\* direct total key resolves returns exactly the currency rendering of the
\* derived sum (line items' price times quantity, plus shipping cost and tax)
\* and nothing else: "$25.00" for items [{price 10, qty 2}] and shipping 5.
C13_DerivedTotalAlone ==
    (/\ pc = "input"
     /\ lookup.type = "order"
     /\ lookup.field \in {"total", "total cost", "total amount", "total price"}
     /\ NoDirectTotal(ExtractedOrder)
     /\ ~Is(DerivedSum(ExtractedOrder), "none"))
    => /\ output.text = _fmt_currency(DerivedSum(ExtractedOrder)).str
       /\ (DerivedSum(ExtractedOrder) = Num(2500) => output.text = V_25_00)

\* C14 (as claimed): extract_field and build_order_summary return a display
\* string for every record and every field name, without raising, so that the
\* turn completes and the loop is back at its input.
C14_ExtractionNeverRaises ==
    /\ pc # "crashed"
    /\ output.msg # "traceback"
    /\ lookup.type = "order" => (pc = "input" /\ output.msg \in {"field", "summary"})

\* C15 (as claimed): the session cache changes only through a successful
\* order or history fetch: a step that changes it ends a call_mcp invocation
\* whose reply was a success (status 200, a body that is no error), and every
\* other step (extraction from a cached record, a failed dispatch, a failed
\* free-text backend call) leaves every cache entry as it was.
C15_CacheChangesOnlyOnSuccessfulFetch ==
    [][SESSION_MEMORY' # SESSION_MEMORY
        => /\ pc = "returned"
           /\ "status" \in DOMAIN resp /\ resp.status = 200
           /\ "json" \in DOMAIN resp /\ result = resp.json
           /\ IsDict(result) /\ "error" \notin DOMAIN result
           /\ \A k \in DOMAIN SESSION_MEMORY :
                 SESSION_MEMORY'[k] # SESSION_MEMORY[k] => ~IsUnavailable(result)]_vars
====
